---- MODULE Spec2Model ----
(***************************************************************************)
(* GrowLocal360 SDK: webhook verification (src/src/index.ts) and the       *)
(* Next.js webhook route that applies job events to data/jobs.json         *)
(* (src/unnamed/part_000).                                                 *)
(*                                                                         *)
(* Strings are sequences of one-character strings, so that prefix          *)
(* stripping, hex decoding and slug generation work on characters.  The    *)
(* empty sequence stands for both "" and undefined: the code only tests    *)
(* such values for truthiness.                                             *)
(***************************************************************************)
EXTENDS Integers, Sequences, FiniteSets, TLC

VARIABLES
    configSecret,   \* SDKConfig.secret of the sdk instance
    fileState,      \* data/jobs.json: "absent", "corrupt" or "ok"
    fileJobs,       \* the array stored in data/jobs.json when fileState = "ok"
    pc,             \* per request: position in the POST handler
    body,           \* per request: raw request body
    sig,            \* per request: x-growlocal360-signature header (<<>> when missing)
    payload,        \* per request: verification.payload
    readJobs,       \* per request: the local `jobs` array as read from the file
    wrote,          \* per request: whether its writeFile call completed
    status,         \* per request: HTTP status of the response (0: none yet)
    revalidated,    \* per request: paths passed to revalidatePath, in order
    received,       \* number of requests received so far
    last,           \* the request that completed last: body, status, wrote
    vin,            \* arguments of a direct verifyWebhook call
    vout,           \* its WebhookVerificationResult
    dlJob,          \* downloadJobImages: the jobData argument
    dlDir,          \* downloadJobImages: the publicDir argument
    dlPc,           \* downloadJobImages: position in the call
    dlIndex,        \* downloadJobImages: the loop variable i
    localImagePaths, \* downloadJobImages: the array being built
    dlFile,         \* downloadImage: filename chosen for the image being saved
    dlOutcomes,     \* per image so far: what happened to its download
    dlFiles,        \* paths of the files written below process.cwd()
    dlLog,          \* downloadImage calls in order: each get and each return
    rin,            \* registerWebhook / unregisterWebhook: the call and how axios settles
    rout,           \* its result
    slugIn,         \* createSlug: the title argument
    slugOut,        \* createSlug: whether it was called, and the slug returned
    libOut          \* lib/jobs.js: the call of getAllJobs or getJobBySlug that returned

imageVars == <<dlJob, dlDir, dlPc, dlIndex, localImagePaths, dlFile, dlOutcomes,
               dlFiles, dlLog>>

\* What the webhook route leaves alone: the direct calls of sdk methods.
regVars == <<rin, rout>>

slugVars == <<slugIn, slugOut>>

sdkVars == <<vin, vout, imageVars, regVars, slugVars, libOut>>

vars == <<configSecret, fileState, fileJobs, pc, body, sig, payload, readJobs,
          wrote, status, revalidated, received, last, sdkVars>>

pipeVars == <<configSecret, fileState, fileJobs, pc, body, sig, payload, readJobs,
              wrote, status, revalidated, received, last>>

----------------------------------------------------------------------------
(* Characters *)

HexLower == <<"0","1","2","3","4","5","6","7","8","9","a","b","c","d","e","f">>

HexUpper == <<"0","1","2","3","4","5","6","7","8","9","A","B","C","D","E","F">>

\* The characters request bodies and secrets are made of.
Alphabet == <<"{", "}", ":", "c", "u", "d", "x", "e", "1", "2",
              "A", "B", "a", "b", "4", " ", "-", "_", "!", "k", "q", "i">>

\* The UTF-8 byte of a character (update(body, 'utf8')): distinct and non-zero.
ByteOf(ch) == CHOOSE i \in 1..Len(Alphabet) : Alphabet[i] = ch

----------------------------------------------------------------------------
(* crypto.createHmac('sha256', key).update(msg).digest() *)

\* Digest length of SHA-256 in bytes.
DigestBytes == 32

\* The keyed message padded to the digest length: key bytes, a zero, message
\* bytes, zeros.
Padded(key, msg) ==
    [i \in 1..DigestBytes |->
        IF i <= Len(key) THEN ByteOf(key[i])
        ELSE IF i = Len(key) + 1 THEN 0
        ELSE IF i <= Len(key) + 1 + Len(msg) THEN ByteOf(msg[i - Len(key) - 1])
        ELSE 0]

\* The digest is library code.  It is modelled as a collision-free keyed
\* function: digest byte i mixes bytes i and i - 1 of the padded keyed message,
\* so different (key, message) pairs of at most DigestBytes - 1 bytes give
\* different digests.
Hmac(key, msg) ==
    LET m == Padded(key, msg)
    IN  [i \in 1..DigestBytes |->
            (165 + m[i] + 3 * (IF i = 1 THEN 0 ELSE m[i - 1])) % 256]

\* .digest('hex'): two lower-case hex digits per byte.
HexEncode(bytes) ==
    [i \in 1..(2 * Len(bytes)) |->
        IF i % 2 = 1 THEN HexLower[(bytes[(i + 1) \div 2] \div 16) + 1]
        ELSE HexLower[(bytes[i \div 2] % 16) + 1]]

----------------------------------------------------------------------------
(* Buffer.from(str, 'hex') and crypto.timingSafeEqual *)

\* Value of a hex digit of either case, -1 for any other character.
Unhex(ch) ==
    CASE ch = "0" -> 0  [] ch = "1" -> 1  [] ch = "2" -> 2  [] ch = "3" -> 3
      [] ch = "4" -> 4  [] ch = "5" -> 5  [] ch = "6" -> 6  [] ch = "7" -> 7
      [] ch = "8" -> 8  [] ch = "9" -> 9
      [] ch \in {"a", "A"} -> 10  [] ch \in {"b", "B"} -> 11
      [] ch \in {"c", "C"} -> 12  [] ch \in {"d", "D"} -> 13
      [] ch \in {"e", "E"} -> 14  [] ch \in {"f", "F"} -> 15
      [] OTHER -> -1

\* The number of leading pairs of hex digits of s, from pair i on.
RECURSIVE HexPairs(_, _)
HexPairs(s, i) ==
    IF 2 * i > Len(s) \/ Unhex(s[2 * i - 1]) < 0 \/ Unhex(s[2 * i]) < 0
    THEN i - 1
    ELSE HexPairs(s, i + 1)

\* Buffer.from(s, 'hex'): decodes Len(s) \div 2 pairs and stops at the first
\* pair that holds a character that is no hex digit.
HexDecode(s) ==
    [i \in 1..HexPairs(s, 1) |-> 16 * Unhex(s[2 * i - 1]) + Unhex(s[2 * i])]

\* Mutant: compares the common prefix instead of throwing on unequal lengths.
TimingSafeEqual_Prefix(a, b) ==
    LET n == IF Len(a) < Len(b) THEN Len(a) ELSE Len(b)
    IN  IF SubSeq(a, 1, n) = SubSeq(b, 1, n) THEN "equal" ELSE "different"

\* timingSafeEqual(a, b): throws a RangeError when the lengths differ.
TimingSafeEqual(a, b) ==
    IF Len(a) # Len(b) THEN "RangeError"
    ELSE IF a = b THEN "equal" ELSE "different"

----------------------------------------------------------------------------
(* String.prototype.replace(pattern, '') with a string pattern *)

Sha256Prefix == <<"s","h","a","2","5","6","=">>

MatchesAt(s, pat, i) ==
    /\ i + Len(pat) - 1 <= Len(s)
    /\ \A k \in 1..Len(pat) : s[i + k - 1] = pat[k]

\* Removes the first occurrence of pat, wherever it is; s itself when there
\* is none.
RemoveFirst(s, pat) ==
    IF \E i \in 1..Len(s) : MatchesAt(s, pat, i)
    THEN LET i == CHOOSE j \in 1..Len(s) :
                      /\ MatchesAt(s, pat, j)
                      /\ \A h \in 1..(j - 1) : ~MatchesAt(s, pat, h)
         IN  SubSeq(s, 1, i - 1) \o SubSeq(s, i + Len(pat), Len(s))
    ELSE s

----------------------------------------------------------------------------
(* Request bodies and JSON.parse *)

\* Request bodies are written in a compact notation of the JSON documents of
\* the webhook: "{" kind id ["e"] ["i"] [":" title] "}", where kind is one
\* character for the event, id is the job_id, "e" says that data.employee is
\* present, "i" that data.job_images is, and ":" introduces data.job_title.
KindChars == {"c", "u", "d", "x"}

IdChars == {"1", "2"}

TitleChars == {"A", "B", "a", "b", "4", " ", "-", "_", "!"}

EventOf(ch) ==
    CASE ch = "c" -> "job.created"
      [] ch = "u" -> "job.updated"
      [] ch = "d" -> "job.deleted"
      [] OTHER    -> "job.archived"

KindOf(event) == CHOOSE ch \in KindChars : EventOf(ch) = event

NoFields == [f \in {} |-> <<>>]

EmployeeValue == <<"e">>

\* payload.data: job_id, and job_title and employee when present.
JobData(id, hasTitle, title, hasEmployee) ==
    [job_id |-> <<id>>]
    @@ (IF hasTitle THEN [job_title |-> title] ELSE NoFields)
    @@ (IF hasEmployee THEN [employee |-> EmployeeValue] ELSE NoFields)

\* data.job_images of the events that carry images: two remote URLs.
BodyImages == << <<"h", "/", "a", ".", "p", "n", "g">>, <<"h", "/", "c">> >>

WithImages(jobData) == jobData @@ [job_images |-> BodyImages]

NoPayload == [event |-> "", data |-> NoFields]

\* JSON.stringify of a payload, as the sender and the test build the body.
Stringify(p) ==
    <<"{", KindOf(p.event), p.data.job_id[1]>>
    \o (IF "employee" \in DOMAIN p.data THEN <<"e">> ELSE <<>>)
    \o (IF "job_images" \in DOMAIN p.data THEN <<"i">> ELSE <<>>)
    \o (IF "job_title" \in DOMAIN p.data THEN <<":">> \o p.data.job_title ELSE <<>>)
    \o <<"}">>

\* JSON.parse(body): the payload, or a SyntaxError (ok = FALSE).
JsonParse(b) ==
    LET n        == Len(b)
        inner    == IF n >= 5 THEN SubSeq(b, 4, n - 1) ELSE <<>>
        hasEmp   == inner # <<>> /\ inner[1] = "e"
        afterEmp == IF hasEmp THEN Tail(inner) ELSE inner
        hasImg   == afterEmp # <<>> /\ afterEmp[1] = "i"
        rest     == IF hasImg THEN Tail(afterEmp) ELSE afterEmp
        hasTitle == rest # <<>> /\ rest[1] = ":"
        title    == IF hasTitle THEN Tail(rest) ELSE <<>>
        wellFormed ==
            /\ n >= 4
            /\ b[1] = "{"
            /\ b[n] = "}"
            /\ b[2] \in KindChars
            /\ b[3] \in IdChars
            /\ (rest = <<>> \/ hasTitle)
            /\ \A i \in 1..Len(title) : title[i] \in TitleChars
    IN  IF wellFormed
        THEN [ok |-> TRUE,
              value |-> [event |-> EventOf(b[2]),
                         data  |-> IF hasImg
                                   THEN WithImages(JobData(b[3], hasTitle, title, hasEmp))
                                   ELSE JobData(b[3], hasTitle, title, hasEmp)]]
        ELSE [ok |-> FALSE, value |-> NoPayload]

----------------------------------------------------------------------------
(* GrowLocal360SDK.verifyWebhook *)

\* Mutant: every value counts as present.
Truthy_Always(s) == TRUE

Truthy(s) == s # <<>>

Failure(message) ==
    [isValid |-> FALSE, hasPayload |-> FALSE, payload |-> NoPayload, error |-> message]

NoResult == Failure("not called")

\* Mutant: this.config.secret || secret
WebhookSecret_ConfigFirst(secret, cfg) == IF Truthy(cfg) THEN cfg ELSE secret

\* secret || this.config.secret
WebhookSecret(secret, cfg) == IF Truthy(secret) THEN secret ELSE cfg

\* Mutant: the prefix is not removed.
CleanSignature_Keep(signature) == signature

\* signature.replace('sha256=', '')
CleanSignature(signature) == RemoveFirst(signature, Sha256Prefix)

\* Mutant: only the lengths of the two buffers are compared.
CompareSignatures_LengthOnly(expectedSignature, cleanSignature) ==
    IF Len(HexDecode(expectedSignature)) = Len(HexDecode(cleanSignature))
    THEN "equal"
    ELSE "RangeError"

\* The comparison of the two decoded buffers.
CompareSignatures(expectedSignature, cleanSignature) ==
    TimingSafeEqual(HexDecode(expectedSignature), HexDecode(cleanSignature))

\* The catch block returns error.message of whatever was thrown.
VerifyWebhook(b, signature, secret, cfg) ==
    LET webhookSecret     == WebhookSecret(secret, cfg)
        expectedSignature == HexEncode(Hmac(webhookSecret, b))
        cmp    == CompareSignatures(expectedSignature, CleanSignature(signature))
        parsed == JsonParse(b)
    IN  IF ~Truthy(webhookSecret) THEN Failure("No webhook secret provided")
        ELSE IF cmp = "RangeError"
             THEN Failure("Input buffers must have the same byte length")
        ELSE IF cmp # "equal" THEN Failure("Invalid signature")
        ELSE IF ~parsed.ok THEN Failure("Unexpected token in JSON")
        ELSE [isValid |-> TRUE, hasPayload |-> TRUE, payload |-> parsed.value,
              error |-> ""]

----------------------------------------------------------------------------
(* Direct calls of verifyWebhook: the inputs *)

Key1 == <<"k">>

Key2 == <<"q">>

\* Bodies the sender produces with JSON.stringify, and bodies that are no JSON.
CallPayloads ==
    { [event |-> "job.created", data |-> JobData("1", TRUE, <<"A", " ", "b">>, TRUE)],
      [event |-> "job.deleted", data |-> JobData("1", FALSE, <<>>, FALSE)],
      [event |-> "job.archived", data |-> JobData("2", TRUE, <<"b", "!">>, FALSE)] }

MalformedBodies == { <<>>, <<"{", "c">>, <<"!", "1">> }

CallBodies == { Stringify(p) : p \in CallPayloads } \cup MalformedBodies

\* The other case of a hex letter; the character itself otherwise.
SwapCase(ch) ==
    IF \E i \in 11..16 : HexLower[i] = ch
    THEN HexUpper[CHOOSE i \in 11..16 : HexLower[i] = ch]
    ELSE IF \E i \in 11..16 : HexUpper[i] = ch
    THEN HexLower[CHOOSE i \in 11..16 : HexUpper[i] = ch]
    ELSE ch

ReplaceAt(s, i, ch) == [s EXCEPT ![i] = ch]

\* Replacements tried at one position of a signature and of a body.
SigReplacements(ch) == {"0", "f", "g", "=", SwapCase(ch)} \ {ch}

BodyReplacements(ch) == {"{", "d", "2", "!"} \ {ch}

\* The signature from the webhook test: well-formed hex, but not the digest.
TestSignature ==
    [i \in 1..(2 * DigestBytes) |-> <<"a","b","c","d","1","2","3","4">>[((i - 1) % 8) + 1]]

NotHexSignature == [i \in 1..(2 * DigestBytes) |-> "z"]

\* What the sender puts in the header for digest d: bare hex or with the scheme.
Header(form, hex) == IF form = "prefixed" THEN Sha256Prefix \o hex ELSE hex

\* One call: the sender signs origBody with signKey and sends the header
\* `sent`; the call receives that body and header (shape "exact"), or a
\* variation of one of them.
CallsOf(b, signKey, form) ==
    LET hex  == HexEncode(Hmac(signKey, b))
        head == Header(form, hex)
        call(shape, bb, ss) ==
            [body |-> bb, signature |-> ss, origBody |-> b, sent |-> head,
             signKey |-> signKey, form |-> form, shape |-> shape]
    IN  { call("exact", b, head) }
        \cup { call("sigbyte", b, ReplaceAt(head, i, ch)) :
                 <<i, ch>> \in { x \in (1..Len(head)) \X {"0", "f", "g", "=", "A", "B",
                                    "C", "D", "E", "F", "a", "b", "c", "d", "e"} :
                                 x[2] \in SigReplacements(head[x[1]]) } }
        \cup { call("bodybyte", ReplaceAt(b, i, ch), head) :
                 <<i, ch>> \in { x \in (1..Len(b)) \X {"{", "d", "2", "!"} :
                                 x[2] \in BodyReplacements(b[x[1]]) } }
        \cup { call("short", b, SubSeq(head, 1, Len(head) - 2)),
               call("long", b, head \o <<"0", "0">>),
               call("odd", b, head \o <<"0">>),
               call("trailing", b, head \o <<"z", "z">>),
               call("nothex", b, Header(form, NotHexSignature)),
               call("test", b, Header(form, TestSignature)) }

Calls ==
    UNION { CallsOf(b, k, form) :
              <<b, k, form>> \in CallBodies \X {Key1, Key2} \X {"bare", "prefixed"} }

NoCall ==
    [body |-> <<>>, signature |-> <<>>, origBody |-> <<>>, sent |-> <<>>,
     signKey |-> <<>>, form |-> "", shape |-> "", secret |-> <<>>]

\* The secret argument and the configured secret of a call.
SecretSetups == { <<Key1, <<>>>>, <<<<>>, Key1>>, <<Key2, Key1>>, <<<<>>, <<>>>> }

----------------------------------------------------------------------------
(* createSlug *)

ToLower(ch) ==
    CASE ch = "A" -> "a"
      [] ch = "B" -> "b"
      [] ch = "G" -> "g"
      [] ch = "J" -> "j"
      [] ch = "N" -> "n"
      [] ch = "P" -> "p"
      [] OTHER    -> ch

\* \w: letters, digits and the underscore.
IsWordChar(ch) == ch \in {"A", "B", "a", "b", "4", "_"}

\* \s
IsSpace(ch) == ch = " "

\* [\s_-]
IsSeparator(ch) == IsSpace(ch) \/ ch \in {"_", "-"}

RECURSIVE LowerCase(_)
LowerCase(s) == IF s = <<>> THEN <<>> ELSE <<ToLower(Head(s))>> \o LowerCase(Tail(s))

\* .replace(/[^\w\s-]/g, '')
StripSpecial(s) == SelectSeq(s, LAMBDA ch : IsWordChar(ch) \/ IsSpace(ch) \/ ch = "-")

RECURSIVE DropSeparators(_)
DropSeparators(s) ==
    IF s # <<>> /\ IsSeparator(Head(s)) THEN DropSeparators(Tail(s)) ELSE s

\* .replace(/[\s_-]+/g, '-')
RECURSIVE CollapseSeparators(_)
CollapseSeparators(s) ==
    IF s = <<>> THEN <<>>
    ELSE IF IsSeparator(Head(s))
         THEN <<"-">> \o CollapseSeparators(DropSeparators(s))
         ELSE <<Head(s)>> \o CollapseSeparators(Tail(s))

RECURSIVE DropLeadingHyphens(_)
DropLeadingHyphens(s) ==
    IF s # <<>> /\ Head(s) = "-" THEN DropLeadingHyphens(Tail(s)) ELSE s

RECURSIVE DropTrailingHyphens(_)
DropTrailingHyphens(s) ==
    IF s # <<>> /\ s[Len(s)] = "-"
    THEN DropTrailingHyphens(SubSeq(s, 1, Len(s) - 1))
    ELSE s

\* Mutant: only the leading hyphens are removed.
TrimHyphens_Leading(s) == DropLeadingHyphens(s)

\* .replace(/^-+|-+$/g, '')
TrimHyphens(s) == DropTrailingHyphens(DropLeadingHyphens(s))

createSlug(title) == TrimHyphens(CollapseSeparators(StripSpecial(LowerCase(title))))

\* Titles have at most this many characters.
MaxTitleLen == 4

NoSlugCall ==
    /\ slugIn = <<>>
    /\ slugOut = [called |-> FALSE, slug |-> <<>>]

----------------------------------------------------------------------------
(* The jobs array of data/jobs.json *)

\* { ...jobData, slug }
JobWithSlug(jobData) == [slug |-> createSlug(jobData.job_title)] @@ jobData

\* Mutant: the callback compares a field no record has, so nothing is found.
FindIndex_NeverFound(jobs, id) == 0

\* jobs.findIndex(j => j.job_id === id), 0 standing for -1.
FindIndex(jobs, id) ==
    IF \E i \in 1..Len(jobs) : jobs[i].job_id = id
    THEN CHOOSE i \in 1..Len(jobs) :
             /\ jobs[i].job_id = id
             /\ \A h \in 1..(i - 1) : jobs[h].job_id # id
    ELSE 0

\* Mutant: an existing record is merged with the new one instead of replaced.
Upsert_Merge(jobs, jobWithSlug) ==
    LET existingIndex == FindIndex(jobs, jobWithSlug.job_id)
    IN  IF existingIndex >= 1
        THEN [jobs EXCEPT ![existingIndex] = jobWithSlug @@ jobs[existingIndex]]
        ELSE Append(jobs, jobWithSlug)

\* Mutant: an existing record is taken out and the new one pushed.
Upsert_MoveToEnd(jobs, jobWithSlug) ==
    Append(SelectSeq(jobs, LAMBDA j : j.job_id # jobWithSlug.job_id), jobWithSlug)

\* Mutant: the record is always pushed.
Upsert_AlwaysPush(jobs, jobWithSlug) == Append(jobs, jobWithSlug)

\* jobs[existingIndex] = jobWithSlug, or jobs.push(jobWithSlug)
Upsert(jobs, jobWithSlug) ==
    LET existingIndex == FindIndex(jobs, jobWithSlug.job_id)
    IN  IF existingIndex >= 1
        THEN [jobs EXCEPT ![existingIndex] = jobWithSlug]
        ELSE Append(jobs, jobWithSlug)

\* Mutant: the filter keeps the records it should drop.
RemoveJob_Inverted(jobs, id) == SelectSeq(jobs, LAMBDA j : j.job_id = id)

\* jobs.filter(j => j.job_id !== id)
RemoveJob(jobs, id) == SelectSeq(jobs, LAMBDA j : j.job_id # id)

\* readFile + JSON.parse of data/jobs.json: fails when the file is absent or
\* does not hold JSON.
ReadOk(state) == state = "ok"

\* What a function of lib/jobs.js returned: the array of getAllJobs, the
\* record of getJobBySlug (found = FALSE standing for undefined), or that it
\* threw.
LibResult(op, slug, threw, jobs, found, job) ==
    [op |-> op, slug |-> slug, threw |-> threw, jobs |-> jobs, found |-> found,
     job |-> job]

NoLibResult == LibResult("", <<>>, FALSE, <<>>, FALSE, NoFields)

\* Mutant: without the try/catch a failed read is thrown to the caller.
GetAllJobs_Throws(state, jobs) ==
    IF ReadOk(state)
    THEN LibResult("getAllJobs", <<>>, FALSE, jobs, FALSE, NoFields)
    ELSE LibResult("getAllJobs", <<>>, TRUE, <<>>, FALSE, NoFields)

\* getAllJobs(): the parsed file, or [] from the catch block.
GetAllJobs(state, jobs) ==
    IF ReadOk(state)
    THEN LibResult("getAllJobs", <<>>, FALSE, jobs, FALSE, NoFields)
    ELSE LibResult("getAllJobs", <<>>, FALSE, <<>>, FALSE, NoFields)

\* getJobBySlug(slug): jobs.find(job => job.slug === slug) on what getAllJobs
\* returns, whose exception is not caught here.
GetJobBySlug(state, jobs, slug) ==
    LET all   == GetAllJobs(state, jobs)
        found == { i \in 1..Len(all.jobs) : all.jobs[i].slug = slug }
        first == CHOOSE i \in found : \A h \in found : i <= h
    IN  IF all.threw THEN LibResult("getJobBySlug", slug, TRUE, <<>>, FALSE, NoFields)
        ELSE IF found = {} THEN LibResult("getJobBySlug", slug, FALSE, <<>>, FALSE, NoFields)
        ELSE LibResult("getJobBySlug", slug, FALSE, <<>>, TRUE, all.jobs[first])

ListPath == <<"/", "j", "o", "b", "s">>

JobPath(slug) == ListPath \o <<"/">> \o slug

----------------------------------------------------------------------------
(* GrowLocal360SDK.downloadImage and downloadJobImages *)

\* Images of one job.
MaxImages == 3

\* The part of s after the last sep; s itself when sep does not occur
\* (s.split(sep).pop()).
AfterLast(s, sep) ==
    IF \E i \in 1..Len(s) : s[i] = sep
    THEN LET i == CHOOSE j \in 1..Len(s) :
                      s[j] = sep /\ \A h \in (j + 1)..Len(s) : s[h] # sep
         IN  SubSeq(s, i + 1, Len(s))
    ELSE s

\* The part of s before the first sep; s itself when sep does not occur
\* (s.split(sep)[0]).
BeforeFirst(s, sep) ==
    IF \E i \in 1..Len(s) : s[i] = sep
    THEN LET i == CHOOSE j \in 1..Len(s) :
                      s[j] = sep /\ \A h \in 1..(j - 1) : s[h] # sep
         IN  SubSeq(s, 1, i - 1)
    ELSE s

\* imageUrl.split('.').pop()?.split('?')[0]
UrlExtension(imageUrl) == BeforeFirst(AfterLast(imageUrl, "."), "?")

DefaultExtension == <<"j", "p", "g">>

AllowedExtensions ==
    { <<"j", "p", "g">>, <<"j", "p", "e", "g">>, <<"p", "n", "g">>, <<"g", "i", "f">>,
      <<"w", "e", "b", "p">>, <<"s", "v", "g">> }

\* extMap[contentType] || 'jpg'
ExtMap(contentType) ==
    CASE contentType = "image/jpeg"    -> <<"j", "p", "g">>
      [] contentType = "image/png"     -> <<"p", "n", "g">>
      [] contentType = "image/gif"     -> <<"g", "i", "f">>
      [] contentType = "image/webp"    -> <<"w", "e", "b", "p">>
      [] contentType = "image/svg+xml" -> <<"s", "v", "g">>
      [] OTHER                         -> DefaultExtension

\* The extension of the file: from the URL when it is a known one, else from
\* the content-type header when there is one ("" stands for no header), else jpg.
Extension(imageUrl, contentType) ==
    LET urlExtension == UrlExtension(imageUrl)
    IN  IF urlExtension # <<>> /\ LowerCase(urlExtension) \in AllowedExtensions
        THEN LowerCase(urlExtension)
        ELSE IF contentType # "" THEN ExtMap(contentType)
        ELSE DefaultExtension

\* String(index) for the indices of a job's images.
DecimalOf(index) == <<"0", "1", "2", "3", "4", "5", "6", "7", "8", "9">>[index + 1]

\* Mutant: the index is left out of the name.
FileName_NoIndex(jobId, index, extension) ==
    <<"j", "o", "b", "-">> \o jobId \o <<".">> \o extension

\* `job-${jobId}-${index}.${extension}`
FileName(jobId, index, extension) ==
    <<"j", "o", "b", "-">> \o jobId \o <<"-", DecimalOf(index), ".">> \o extension

PublicPrefix == <<"p", "u", "b", "l", "i", "c", "/">>

DefaultPublicDir == PublicPrefix \o <<"j", "o", "b", "s">>

\* join(process.cwd(), publicDir, filename), relative to process.cwd()
FilePath(publicDir, filename) == publicDir \o <<"/">> \o filename

\* `/${publicDir.replace('public/', '')}/${filename}`
LocalReference(publicDir, filename) ==
    <<"/">> \o RemoveFirst(publicDir, PublicPrefix) \o <<"/">> \o filename

\* jobData.job_images && jobData.job_images.length > 0
HasImages(jobData) ==
    "job_images" \in DOMAIN jobData /\ Len(jobData.job_images) > 0

ImagesOf(jobData) == IF HasImages(jobData) THEN jobData.job_images ELSE <<>>

\* The image URLs of the calls: a known extension, a known extension in upper
\* case followed by a query, and no extension.
ImageUrls ==
    { <<"h", "/", "a", ".", "p", "n", "g">>,
      <<"h", "/", "b", ".", "J", "P", "G", "?", "w">>,
      <<"h", "/", "c">> }

\* content-type headers of the responses; "" when the header is missing.
ContentTypes == {"", "image/png", "text/html"}

RECURSIVE SeqsUpTo(_, _)
SeqsUpTo(S, n) ==
    IF n = 0 THEN { <<>> }
    ELSE LET shorter == SeqsUpTo(S, n - 1)
         IN  shorter \cup { Append(s, x) : s \in { t \in shorter : Len(t) = n - 1 }, x \in S }

\* The calls: <<jobData, publicDir>>.  jobData has job_images or lacks it.
DownloadCalls ==
    LET dirs == [ id \in IdChars |->
                    IF id = "1" THEN DefaultPublicDir ELSE <<"i", "m", "g">> ]
    IN  { <<[job_id |-> <<id>>, job_images |-> imgs], dirs[id]>> :
            id \in IdChars, imgs \in SeqsUpTo(ImageUrls, MaxImages) }
        \cup { <<[job_id |-> <<id>>], dirs[id]>> : id \in IdChars }

\* downloadJobImages is not being called.
NoDownload ==
    /\ dlJob = [job_id |-> <<>>]
    /\ dlDir = <<>>
    /\ dlPc = "Idle"
    /\ dlIndex = 0
    /\ localImagePaths = <<>>
    /\ dlFile = <<>>
    /\ dlOutcomes = <<>>
    /\ dlFiles = {}
    /\ dlLog = <<>>

----------------------------------------------------------------------------
(* GrowLocal360SDK.registerWebhook and unregisterWebhook *)

\* What was thrown inside the try block.  response is what error.response
\* holds, hasResponse = FALSE standing for undefined.
ThrownError(isAxiosError, isError, message, hasResponse, httpStatus, statusText) ==
    [isAxiosError |-> isAxiosError, isError |-> isError, message |-> message,
     hasResponse |-> hasResponse, status |-> httpStatus, statusText |-> statusText]

\* `${value}` of a number or string that may be undefined.
Interpolate(defined, value) == IF defined THEN ToString(value) ELSE "undefined"

\* `HTTP ${error.response?.status}: ${error.response?.statusText}`
HttpErrorText(error) ==
    "HTTP " \o Interpolate(error.hasResponse, error.status)
    \o ": " \o (IF error.hasResponse THEN error.statusText ELSE "undefined")

\* error instanceof Error ? error.message : 'Unknown error'
MessageOf(error) == IF error.isError THEN error.message ELSE "Unknown error"

RegistrationFailure(text) == [success |-> FALSE, webhook_id |-> "", error |-> text]

\* The catch block of src/index.ts: axios.isAxiosError(error) decides.
CatchAxiosError(error) ==
    IF error.isAxiosError
    THEN RegistrationFailure(HttpErrorText(error))
    ELSE RegistrationFailure(MessageOf(error))

\* The catch block of the other copy of the class: error.response decides.
CatchErrorResponse(error) ==
    IF error.hasResponse
    THEN RegistrationFailure(HttpErrorText(error))
    ELSE RegistrationFailure(MessageOf(error))

CatchBlock(copy, error) ==
    IF copy = "index.ts" THEN CatchAxiosError(error) ELSE CatchErrorResponse(error)

\* response.data.webhook_id of a response without data
NoDataError ==
    ThrownError(FALSE, TRUE, "Cannot read properties of null (reading 'webhook_id')",
                FALSE, 0, "")

\* registerWebhook, given how axios.post settles.
RegisterWebhook(copy, settled) ==
    IF settled.resolved
    THEN IF settled.hasData
         THEN [success |-> TRUE, webhook_id |-> settled.webhook_id, error |-> ""]
         ELSE CatchBlock(copy, NoDataError)
    ELSE CatchBlock(copy, settled.error)

\* unregisterWebhook, given how axios.delete settles.
UnregisterWebhook(copy, settled) ==
    IF settled.resolved
    THEN [success |-> TRUE, webhook_id |-> "", error |-> ""]
    ELSE CatchBlock(copy, settled.error)

NoError == ThrownError(FALSE, FALSE, "", FALSE, 0, "")

Resolved(hasData, id) ==
    [resolved |-> TRUE, hasData |-> hasData, webhook_id |-> id, error |-> NoError]

Rejected(error) ==
    [resolved |-> FALSE, hasData |-> FALSE, webhook_id |-> "", error |-> error]

\* Responses of the service with a status outside 2xx.
HttpFailures ==
    { <<400, "Bad Request">>, <<401, "Unauthorized">>, <<404, "Not Found">>,
      <<500, "Internal Server Error">>, <<503, "">> }

\* Failures before any response was received.
TransportMessages ==
    { "Network Error", "timeout of 1000ms exceeded", "connect ECONNREFUSED 127.0.0.1:80" }

\* How the request of axios may settle.
Settlements ==
    { Resolved(TRUE, id) : id \in {"wh_1", "wh_2"} }
    \cup { Resolved(FALSE, "") }
    \cup { Rejected(ThrownError(TRUE, TRUE, "Request failed with status code " \o ToString(f[1]),
                                TRUE, f[1], f[2])) : f \in HttpFailures }
    \cup { Rejected(ThrownError(TRUE, TRUE, msg, FALSE, 0, "")) : msg \in TransportMessages }
    \cup { Rejected(ThrownError(FALSE, TRUE, "Invalid URL", FALSE, 0, "")),
           Rejected(ThrownError(FALSE, FALSE, "", FALSE, 0, "")) }

\* The calls: the method, its argument, the copy of the class that is called
\* and how the request settles.
RegistrationCalls ==
    { [method |-> "registerWebhook", arg |-> url, copy |-> copy, settled |-> s] :
        url \in {"https://a.example/hook", "https://b.example/hook"},
        copy \in {"index.ts", "copy"}, s \in Settlements }
    \cup { [method |-> "unregisterWebhook", arg |-> id, copy |-> copy, settled |-> s] :
             id \in {"wh_1", "wh_2"}, copy \in {"index.ts", "copy"}, s \in Settlements }

NoRegistrationCall ==
    [method |-> "", arg |-> "", copy |-> "", settled |-> Resolved(FALSE, "")]

NoRegistrationResult == [success |-> FALSE, webhook_id |-> "", error |-> "not called"]

NoRegistration ==
    /\ rin = NoRegistrationCall
    /\ rout = NoRegistrationResult

----------------------------------------------------------------------------
(* The webhook route: export async function POST(request) *)

\* Requests the route may be handling at the same time.
Requests == {"r1", "r2"}

\* Requests received in one run.
MaxRequests == 3

\* What callers send: events for two jobs, one of them with images, an event
\* of an unknown kind, a created event that lacks job_title, and a body that
\* is no JSON.
RequestPayloads ==
    { [event |-> "job.created", data |-> JobData("1", TRUE, <<"A", " ", "b">>, TRUE)],
      [event |-> "job.updated", data |-> JobData("1", TRUE, <<"b", "!">>, FALSE)],
      [event |-> "job.created",
       data |-> WithImages(JobData("2", TRUE, <<"a", "_", "b">>, FALSE))],
      [event |-> "job.deleted", data |-> JobData("1", FALSE, <<>>, FALSE)],
      [event |-> "job.deleted", data |-> JobData("2", FALSE, <<>>, FALSE)],
      [event |-> "job.archived", data |-> JobData("1", TRUE, <<"A", " ", "b">>, FALSE)],
      [event |-> "job.created", data |-> JobData("2", FALSE, <<>>, FALSE)] }

RequestBodies == { Stringify(p) : p \in RequestPayloads } \cup { <<"{", "c">> }

\* The signature header of a request: the sender's (signed with Key1), and
\* for two of the bodies also a missing one and one made with another key.
RequestHeaders(b) ==
    { Header("prefixed", HexEncode(Hmac(Key1, b))) }
    \cup (IF b \in { <<"{", "c">>, <<"{", "d", "1", "}">> }
          THEN { <<>>, Header("bare", HexEncode(Hmac(Key2, b))) }
          ELSE {})

\* The requests that may arrive: <<body, signature header>>.
Arrivals == UNION { { <<b, s>> : s \in RequestHeaders(b) } : b \in RequestBodies }

NoLast == [body |-> <<>>, status |-> 0, wrote |-> FALSE]

\* Mutant: the upsert is the default case of the switch.
IsUpsertEvent_Default(event) == event # "job.deleted"

IsUpsertEvent(event) == event \in {"job.created", "job.updated"}

\* A request arrives and runs up to the first await of a handler: the header
\* check and sdk.verifyWebhook(body, signature).
Receive(r, b, s) ==
    /\ pc[r] = "Idle"
    /\ received < MaxRequests
    /\ received' = received + 1
    /\ body' = [body EXCEPT ![r] = b]
    /\ sig' = [sig EXCEPT ![r] = s]
    /\ LET verification == VerifyWebhook(b, s, <<>>, configSecret)
       IN  IF ~Truthy(s)
           THEN /\ pc' = [pc EXCEPT ![r] = "Rejected"]
                /\ status' = [status EXCEPT ![r] = 400]
                /\ UNCHANGED payload
           ELSE IF ~verification.isValid
           THEN /\ pc' = [pc EXCEPT ![r] = "Rejected"]
                /\ status' = [status EXCEPT ![r] = 401]
                /\ UNCHANGED payload
           ELSE /\ pc' = [pc EXCEPT ![r] = "Dispatching"]
                /\ payload' = [payload EXCEPT ![r] = verification.payload]
                /\ UNCHANGED status
    /\ UNCHANGED <<configSecret, fileState, fileJobs, readJobs, wrote, revalidated,
                   last, sdkVars>>

\* handleJobCreatedOrUpdated up to the call of writeFile: the file is read
\* (an absent or unreadable file gives []), and createSlug throws when
\* job_title is undefined.
ReadForUpsert(r) ==
    /\ pc[r] = "Dispatching"
    /\ IsUpsertEvent(payload[r].event)
    /\ readJobs' = [readJobs EXCEPT ![r] = IF ReadOk(fileState) THEN fileJobs ELSE <<>>]
    /\ IF "job_title" \in DOMAIN payload[r].data
       THEN /\ pc' = [pc EXCEPT ![r] = "Writing"]
            /\ UNCHANGED status
       ELSE /\ pc' = [pc EXCEPT ![r] = "Failed"]
            /\ status' = [status EXCEPT ![r] = 500]
    /\ UNCHANGED <<configSecret, fileState, fileJobs, body, sig, payload, wrote,
                   revalidated, received, last, sdkVars>>

\* writeFile of handleJobCreatedOrUpdated and what follows it: the two
\* revalidatePath calls and the 200 response; a failed write is thrown to the
\* catch block of POST.
WriteUpsert(r, ok) ==
    /\ pc[r] = "Writing"
    /\ IsUpsertEvent(payload[r].event)
    /\ LET jobWithSlug == JobWithSlug(payload[r].data)
       IN  IF ok
           THEN /\ fileState' = "ok"
                /\ fileJobs' = Upsert(readJobs[r], jobWithSlug)
                /\ wrote' = [wrote EXCEPT ![r] = TRUE]
                /\ revalidated' = [revalidated EXCEPT ![r] =
                                     <<JobPath(jobWithSlug.slug), ListPath>>]
                /\ status' = [status EXCEPT ![r] = 200]
                /\ pc' = [pc EXCEPT ![r] = "Done"]
           ELSE /\ status' = [status EXCEPT ![r] = 500]
                /\ pc' = [pc EXCEPT ![r] = "Failed"]
                /\ UNCHANGED <<fileState, fileJobs, wrote, revalidated>>
    /\ UNCHANGED <<configSecret, body, sig, payload, readJobs, received, last,
                   sdkVars>>

\* handleJobDeleted up to the call of writeFile: a failed read is caught and
\* logged, and the handler returns.
ReadForDelete(r) ==
    /\ pc[r] = "Dispatching"
    /\ payload[r].event = "job.deleted"
    /\ IF ReadOk(fileState)
       THEN /\ readJobs' = [readJobs EXCEPT ![r] = fileJobs]
            /\ pc' = [pc EXCEPT ![r] = "Writing"]
            /\ UNCHANGED status
       ELSE /\ pc' = [pc EXCEPT ![r] = "Done"]
            /\ status' = [status EXCEPT ![r] = 200]
            /\ UNCHANGED readJobs
    /\ UNCHANGED <<configSecret, fileState, fileJobs, body, sig, payload, wrote,
                   revalidated, received, last, sdkVars>>

\* writeFile of handleJobDeleted and what follows it; a failed write is
\* caught and logged too.
WriteDelete(r, ok) ==
    /\ pc[r] = "Writing"
    /\ payload[r].event = "job.deleted"
    /\ IF ok
       THEN /\ fileJobs' = RemoveJob(readJobs[r], payload[r].data.job_id)
            /\ wrote' = [wrote EXCEPT ![r] = TRUE]
            /\ revalidated' = [revalidated EXCEPT ![r] = <<ListPath>>]
       ELSE UNCHANGED <<fileJobs, wrote, revalidated>>
    /\ status' = [status EXCEPT ![r] = 200]
    /\ pc' = [pc EXCEPT ![r] = "Done"]
    /\ UNCHANGED <<configSecret, fileState, body, sig, payload, readJobs, received,
                   last, sdkVars>>

\* The switch has no case for any other event.
SkipEvent(r) ==
    /\ pc[r] = "Dispatching"
    /\ ~IsUpsertEvent(payload[r].event)
    /\ payload[r].event # "job.deleted"
    /\ status' = [status EXCEPT ![r] = 200]
    /\ pc' = [pc EXCEPT ![r] = "Done"]
    /\ UNCHANGED <<configSecret, fileState, fileJobs, body, sig, payload, readJobs,
                   wrote, revalidated, received, last, sdkVars>>

\* The response has been sent; the request is remembered as the last one.
Finish(r) ==
    /\ pc[r] \in {"Done", "Rejected", "Failed"}
    /\ last' = [body |-> body[r], status |-> status[r], wrote |-> wrote[r]]
    /\ pc' = [pc EXCEPT ![r] = "Idle"]
    /\ body' = [body EXCEPT ![r] = <<>>]
    /\ sig' = [sig EXCEPT ![r] = <<>>]
    /\ payload' = [payload EXCEPT ![r] = NoPayload]
    /\ readJobs' = [readJobs EXCEPT ![r] = <<>>]
    /\ wrote' = [wrote EXCEPT ![r] = FALSE]
    /\ status' = [status EXCEPT ![r] = 0]
    /\ revalidated' = [revalidated EXCEPT ![r] = <<>>]
    /\ UNCHANGED <<configSecret, fileState, fileJobs, received, sdkVars>>

\* No request in flight.
Quiet ==
    /\ pc = [r \in Requests |-> "Idle"]
    /\ body = [r \in Requests |-> <<>>]
    /\ sig = [r \in Requests |-> <<>>]
    /\ payload = [r \in Requests |-> NoPayload]
    /\ readJobs = [r \in Requests |-> <<>>]
    /\ wrote = [r \in Requests |-> FALSE]
    /\ status = [r \in Requests |-> 0]
    /\ revalidated = [r \in Requests |-> <<>>]
    /\ received = 0
    /\ last = NoLast

\* The route starts with data/jobs.json absent, unreadable, or holding [].
Init ==
    /\ configSecret \in {Key1, <<>>}
    /\ fileState \in {"absent", "corrupt", "ok"}
    /\ fileJobs = <<>>
    /\ Quiet
    /\ libOut = NoLibResult
    /\ vin = NoCall
    /\ vout = NoResult
    /\ NoDownload
    /\ NoRegistration
    /\ NoSlugCall

Step(r) ==
    \/ ReadForUpsert(r)
    \/ \E ok \in BOOLEAN : WriteUpsert(r, ok)
    \/ ReadForDelete(r)
    \/ \E ok \in BOOLEAN : WriteDelete(r, ok)
    \/ SkipEvent(r)
    \/ Finish(r)

Arrive(r) == \E a \in Arrivals : Receive(r, a[1], a[2])

\* Requests are handled concurrently: every await lets another request run.
Next == \E r \in Requests : Arrive(r) \/ Step(r)

Spec == Init /\ [][Next]_vars

\* One request at a time: a request arrives only when no other is handled.
NextSeq ==
    \E r \in Requests :
        \/ (\A q \in Requests : pc[q] = "Idle") /\ Arrive(r)
        \/ Step(r)

SeqSpec == Init /\ [][NextSeq]_vars

----------------------------------------------------------------------------
(* Direct calls of sdk.verifyWebhook(body, signature, secret) *)

CallInit ==
    /\ \E setup \in SecretSetups :
         /\ configSecret = setup[2]
         /\ vin \in { c @@ [secret |-> setup[1]] : c \in Calls }
    /\ vout = NoResult
    /\ fileState = "absent"
    /\ fileJobs = <<>>
    /\ Quiet
    /\ libOut = NoLibResult
    /\ NoDownload
    /\ NoRegistration
    /\ NoSlugCall

VerifyCall ==
    /\ vout = NoResult
    /\ vout' = VerifyWebhook(vin.body, vin.signature, vin.secret, configSecret)
    /\ UNCHANGED <<vin, pipeVars, imageVars, regVars, slugVars, libOut>>

CallNext == VerifyCall

CallSpec == CallInit /\ [][CallNext]_vars

----------------------------------------------------------------------------
(* Direct calls of sdk.downloadJobImages(jobData, publicDir) *)

\* Mutant: the URL of the first image, whatever image the loop is at.
CurrentUrl_First == dlJob.job_images[1]

\* The image the loop is at.
CurrentUrl == dlJob.job_images[dlIndex + 1]

\* Mutant: the loop does not await downloadImage, so that it goes on while
\* the file of the previous image is still being saved.
AwaitsDownload_Not == dlPc \in {"Loop", "Saving"}

\* await this.downloadImage(...): the loop goes on only when the call of
\* downloadImage for the previous image has returned.
AwaitsDownload == dlPc = "Loop"

\* The loop of downloadJobImages calls downloadImage for image i, which
\* starts axios.get.
StartFetch ==
    /\ AwaitsDownload
    /\ HasImages(dlJob)
    /\ dlIndex < Len(dlJob.job_images)
    /\ dlIndex < MaxImages
    /\ dlPc' = "Fetching"
    /\ dlLog' = Append(dlLog, [op |-> "get", index |-> dlIndex, url |-> CurrentUrl])
    /\ UNCHANGED <<dlJob, dlDir, dlIndex, localImagePaths, dlFile, dlOutcomes, dlFiles>>
    /\ UNCHANGED <<pipeVars, vin, vout, regVars, slugVars, libOut>>

\* downloadImage returned localPath, which the loop pushes before it goes on
\* with the next image.
PushPath(localPath, outcome) ==
    /\ localImagePaths' = Append(localImagePaths, localPath)
    /\ dlOutcomes' = Append(dlOutcomes, outcome)
    /\ dlIndex' = dlIndex + 1
    /\ dlPc' = "Loop"
    /\ dlFile' = <<>>
    /\ dlLog' = Append(dlLog, [op |-> "returned", index |-> dlIndex, url |-> CurrentUrl])

\* axios.get settles: with a response that has the header contentType, or
\* with an error, which the catch block answers with the original URL.
FetchEnds(ok, contentType) ==
    /\ dlPc = "Fetching"
    /\ IF ok
       THEN /\ dlFile' = FileName(dlJob.job_id, dlIndex, Extension(CurrentUrl, contentType))
            /\ dlPc' = "Saving"
            /\ UNCHANGED <<dlIndex, localImagePaths, dlOutcomes, dlLog>>
       ELSE PushPath(CurrentUrl, "fetch failed")
    /\ UNCHANGED <<dlJob, dlDir, dlFiles>>
    /\ UNCHANGED <<pipeVars, vin, vout, regVars, slugVars, libOut>>

\* mkdir and writeFile settle: the file is written and its public path
\* returned, or one of them fails and the catch block returns the original URL.
SaveEnds(ok) ==
    /\ dlPc = "Saving"
    /\ IF ok
       THEN /\ dlFiles' = dlFiles \cup { FilePath(dlDir, dlFile) }
            /\ PushPath(LocalReference(dlDir, dlFile), "saved")
       ELSE /\ PushPath(CurrentUrl, "save failed")
            /\ UNCHANGED dlFiles
    /\ UNCHANGED <<dlJob, dlDir>>
    /\ UNCHANGED <<pipeVars, vin, vout, regVars, slugVars, libOut>>

\* The loop has ended, or there are no images: localImagePaths is returned.
ReturnPaths ==
    /\ dlPc = "Loop"
    /\ dlIndex = Len(ImagesOf(dlJob))
    /\ dlPc' = "Returned"
    /\ UNCHANGED <<dlJob, dlDir, dlIndex, localImagePaths, dlFile, dlOutcomes, dlFiles,
                   dlLog>>
    /\ UNCHANGED <<pipeVars, vin, vout, regVars, slugVars, libOut>>

\* A call sdk.downloadJobImages(jobData, publicDir) has been made and is
\* about to enter the loop.
ImageInit ==
    /\ \E c \in DownloadCalls :
         /\ dlJob = c[1]
         /\ dlDir = c[2]
    /\ dlPc = "Loop"
    /\ dlIndex = 0
    /\ localImagePaths = <<>>
    /\ dlFile = <<>>
    /\ dlOutcomes = <<>>
    /\ dlFiles = {}
    /\ dlLog = <<>>
    /\ configSecret = <<>>
    /\ fileState = "absent"
    /\ fileJobs = <<>>
    /\ Quiet
    /\ libOut = NoLibResult
    /\ vin = NoCall
    /\ vout = NoResult
    /\ NoRegistration
    /\ NoSlugCall

ImageNext ==
    \/ StartFetch
    \/ \E ok \in BOOLEAN, contentType \in ContentTypes : FetchEnds(ok, contentType)
    \/ \E ok \in BOOLEAN : SaveEnds(ok)
    \/ ReturnPaths

ImageSpec == ImageInit /\ [][ImageNext]_vars

----------------------------------------------------------------------------
(* Direct calls of sdk.registerWebhook and sdk.unregisterWebhook *)

RegInit ==
    /\ rin \in RegistrationCalls
    /\ rout = NoRegistrationResult
    /\ configSecret = <<>>
    /\ fileState = "absent"
    /\ fileJobs = <<>>
    /\ Quiet
    /\ libOut = NoLibResult
    /\ vin = NoCall
    /\ vout = NoResult
    /\ NoDownload
    /\ NoSlugCall

\* The request settles and the method returns.
RegistrationCall ==
    /\ rout = NoRegistrationResult
    /\ rout' = IF rin.method = "registerWebhook"
               THEN RegisterWebhook(rin.copy, rin.settled)
               ELSE UnregisterWebhook(rin.copy, rin.settled)
    /\ UNCHANGED <<rin, pipeVars, vin, vout, imageVars, slugVars, libOut>>

RegNext == RegistrationCall

RegSpec == RegInit /\ [][RegNext]_vars

----------------------------------------------------------------------------
(* Direct calls of createSlug(title) *)

\* Titles: letters of both cases, a digit, the space, the hyphen, the
\* underscore and a punctuation mark.
Titles == SeqsUpTo(TitleChars, MaxTitleLen)

SlugInit ==
    /\ slugIn \in Titles
    /\ slugOut = [called |-> FALSE, slug |-> <<>>]
    /\ configSecret = <<>>
    /\ fileState = "absent"
    /\ fileJobs = <<>>
    /\ Quiet
    /\ libOut = NoLibResult
    /\ vin = NoCall
    /\ vout = NoResult
    /\ NoDownload
    /\ NoRegistration

SlugCall ==
    /\ ~slugOut.called
    /\ Len(slugIn) <= MaxTitleLen
    /\ slugOut' = [called |-> TRUE, slug |-> createSlug(slugIn)]
    /\ UNCHANGED <<slugIn, pipeVars, vin, vout, imageVars, regVars, libOut>>

SlugNext == SlugCall

SlugSpec == SlugInit /\ [][SlugNext]_vars

----------------------------------------------------------------------------
(* The pages read the catalog with lib/jobs.js while the route handles
   requests, one at a time *)

\* The slugs pages are asked for: those of the titles callers send, and one
\* that no job has.
PageSlugs ==
    { createSlug(p.data.job_title) :
        p \in { q \in RequestPayloads : "job_title" \in DOMAIN q.data } }
    \cup { <<"4">> }

GetAllJobsCall ==
    /\ libOut = NoLibResult
    /\ libOut' = GetAllJobs(fileState, fileJobs)
    /\ UNCHANGED <<pipeVars, vin, vout, imageVars, regVars, slugVars>>

GetJobBySlugCall(slug) ==
    /\ libOut = NoLibResult
    /\ libOut' = GetJobBySlug(fileState, fileJobs, slug)
    /\ UNCHANGED <<pipeVars, vin, vout, imageVars, regVars, slugVars>>

\* The page has used what the call returned.
LibReturn ==
    /\ libOut # NoLibResult
    /\ libOut' = NoLibResult
    /\ UNCHANGED <<pipeVars, vin, vout, imageVars, regVars, slugVars>>

LibNext ==
    \/ libOut = NoLibResult /\ NextSeq
    \/ GetAllJobsCall
    \/ \E slug \in PageSlugs : GetJobBySlugCall(slug)
    \/ LibReturn

LibSpec == Init /\ [][LibNext]_vars

----------------------------------------------------------------------------
(* createWebhookHandler(sdk, config): the handler the SDK exports *)

\* The status the handler answers with.  req.body is the parsed request body,
\* so JSON.stringify(req.body) and the verification inside its try block do
\* not throw for it.
CreateWebhookHandler(method, reqBody, signature, handlerSecret, cfg) ==
    LET verification ==
            VerifyWebhook(Stringify(reqBody), signature, handlerSecret, cfg)
    IN  IF method # "POST" THEN 405
        ELSE IF ~Truthy(signature) THEN 400
        ELSE IF ~verification.isValid THEN 401
        ELSE 200

----------------------------------------------------------------------------
(* Vocabulary of the properties *)

\* The catalog the file holds: an absent or unreadable file is the empty one.
Catalog == IF fileState = "ok" THEN fileJobs ELSE <<>>

Accepted(r) == pc[r] \in {"Dispatching", "Writing", "Done", "Failed"}

\* <<body, header>> as the holder of Key1 sends them, in either form.
SignedWithKey1 ==
    { <<b, Header(form, HexEncode(Hmac(Key1, b)))>> :
        <<b, form>> \in RequestBodies \X {"bare", "prefixed"} }

\* The header is what the holder of the configured secret sends for the body.
Authentic(r) == configSecret = Key1 /\ <<body[r], sig[r]>> \in SignedWithKey1

\* The body is the JSON text of a payload, and payload[r] is that payload.
ParsedAs(r) == \E p \in RequestPayloads : Stringify(p) = body[r] /\ payload[r] = p

JobIdOf(r) == payload[r].data.job_id

\* An upsert request that completed: written and answered with 200.
UpsertDone(r) ==
    /\ pc[r] = "Done"
    /\ IsUpsertEvent(payload[r].event)
    /\ wrote[r]

\* The indices of jobs whose record has job_id id.
IndicesOf(jobs, id) == { i \in 1..Len(jobs) : jobs[i].job_id = id }

\* after is before with the records of job_id id taken out and the others
\* kept in their order.
IsRemovalOf(before, after, id) ==
    LET kept == { i \in 1..Len(before) : before[i].job_id # id }
        nth(k) == CHOOSE i \in kept : Cardinality({ h \in kept : h <= i }) = k
    IN  /\ Len(after) = Cardinality(kept)
        /\ \A k \in 1..Len(after) : after[k] = before[nth(k)]

----------------------------------------------------------------------------
(* C1: a request is dispatched only when its signature verified and its body
   parsed; a request that fails either is rejected, has written nothing to
   the catalog and has revalidated no path. *)
C1_DispatchOnlyVerified ==
    \A r \in Requests :
        /\ Accepted(r) => Authentic(r) /\ ParsedAs(r)
        /\ (pc[r] # "Idle" /\ ~(Authentic(r) /\ \E p \in RequestPayloads : Stringify(p) = body[r]))
               => pc[r] = "Rejected"
        /\ pc[r] = "Rejected"
               => /\ ~wrote[r]
                  /\ revalidated[r] = <<>>
                  /\ status[r] \in {400, 401}

\* A body that is no JSON, authentically signed, was rejected while another
\* request is about to write.
C1_Witness ==
    \E r, q \in Requests :
        /\ pc[r] = "Rejected"
        /\ Authentic(r)
        /\ status[r] = 401
        /\ pc[q] = "Writing"

----------------------------------------------------------------------------
(* C2: when only two requests were received, for different job_ids, and both
   completed their write, the catalog reflects both: the record of an upsert
   is in it and no record of a deleted job_id is. *)
Reflected(r) ==
    IF IsUpsertEvent(payload[r].event)
    THEN \E i \in 1..Len(Catalog) : Catalog[i] = JobWithSlug(payload[r].data)
    ELSE IndicesOf(Catalog, JobIdOf(r)) = {}

C2_NoLostMutation ==
    \A r, q \in Requests :
        ( /\ r # q
          /\ received = 2
          /\ pc[r] = "Done" /\ wrote[r]
          /\ pc[q] = "Done" /\ wrote[q]
          /\ JobIdOf(r) # JobIdOf(q) )
        => Reflected(r) /\ Reflected(q)

----------------------------------------------------------------------------
(* C3: handling one request at a time, starting from an empty catalog, no two
   records of the catalog have the same job_id. *)
C3_UniqueJobIds ==
    \A i, j \in 1..Len(fileJobs) :
        fileJobs[i].job_id = fileJobs[j].job_id => i = j

\* An update has replaced a record of a catalog of two.
C3_Witness ==
    \E r \in Requests :
        /\ UpsertDone(r)
        /\ Len(fileJobs) = 2
        /\ IndicesOf(readJobs[r], JobIdOf(r)) # {}

----------------------------------------------------------------------------
(* C4: after an upsert the catalog holds exactly one record with the job_id
   of the event; it has the fields of the event and no other, with the
   event's values, and its slug is createSlug of the event's title. *)
C4_UpsertReplaces ==
    \A r \in Requests :
        UpsertDone(r) =>
            LET jobData == payload[r].data
                found   == IndicesOf(fileJobs, jobData.job_id)
            IN  /\ Cardinality(found) = 1
                /\ \A i \in found :
                       /\ DOMAIN fileJobs[i] = DOMAIN jobData \cup {"slug"}
                       /\ \A f \in DOMAIN jobData : fileJobs[i][f] = jobData[f]
                       /\ fileJobs[i].slug = createSlug(jobData.job_title)

\* The second upsert of a job_id: the record it replaced had another title
\* and a field the new event does not carry.
C4_Witness ==
    \E r \in Requests :
        /\ UpsertDone(r)
        /\ \E i \in IndicesOf(readJobs[r], JobIdOf(r)) :
               /\ readJobs[r][i].job_title # payload[r].data.job_title
               /\ "employee" \in DOMAIN readJobs[r][i]
               /\ "employee" \notin DOMAIN payload[r].data

----------------------------------------------------------------------------
(* C5: the step that completes a job.deleted request for job_id J answers
   200; when its write completed, the catalog is the previous one with the
   records of J taken out and the others kept in order; and when the previous
   catalog had no record of J (an empty catalog and an absent file included)
   the file and its content are as before. *)
DeleteCompletes(r) ==
    /\ pc[r] \in {"Dispatching", "Writing"}
    /\ payload[r].event = "job.deleted"
    /\ pc'[r] = "Done"

C5_DeleteRemovesOnlyJ ==
    [][ \A r \in Requests :
          DeleteCompletes(r) =>
              /\ status'[r] = 200
              /\ wrote'[r] => IsRemovalOf(Catalog, Catalog', JobIdOf(r))
              /\ IndicesOf(Catalog, JobIdOf(r)) = {}
                     => fileState' = fileState /\ fileJobs' = fileJobs ]_vars

\* A delete took one record of two out of the catalog.
C5_Witness ==
    \E r \in Requests :
        /\ pc[r] = "Done"
        /\ payload[r].event = "job.deleted"
        /\ wrote[r]
        /\ Len(readJobs[r]) = 2
        /\ Len(fileJobs) = 1
        /\ fileJobs[1].job_id # JobIdOf(r)

----------------------------------------------------------------------------
(* C6: handling one request at a time, when a request repeats the body of the
   request before it and both wrote the catalog, the catalog after the second
   is the catalog it read, which is the one the first left: same records,
   same order. *)
RepeatsLast(r) ==
    /\ pc[r] = "Done"
    /\ wrote[r]
    /\ last.body = body[r]
    /\ last.wrote

C6_SecondApplicationChangesNothing ==
    \A r \in Requests :
        RepeatsLast(r) => fileState = "ok" /\ fileJobs = readJobs[r]

\* The same job.created was applied twice to a catalog that holds another job.
C6_Witness ==
    \E r \in Requests :
        /\ RepeatsLast(r)
        /\ IsUpsertEvent(payload[r].event)
        /\ Len(fileJobs) = 2

----------------------------------------------------------------------------
(* Vocabulary of the properties of verifyWebhook *)

Called == vout # NoResult

\* The secret the call verifies with.
SecretInUse == IF vin.secret # <<>> THEN vin.secret ELSE configSecret

IsHexChar(ch) ==
    ch \in {"0","1","2","3","4","5","6","7","8","9",
            "a","b","c","d","e","f","A","B","C","D","E","F"}

AllHex(s) == \A i \in 1..Len(s) : IsHexChar(s[i])

\* The signature without a leading "sha256=".
BareOf(s) ==
    IF Len(s) >= Len(Sha256Prefix) /\ SubSeq(s, 1, Len(Sha256Prefix)) = Sha256Prefix
    THEN SubSeq(s, Len(Sha256Prefix) + 1, Len(s))
    ELSE s

\* The body is the JSON text of a payload.
IsJsonBody(b) == \E p \in CallPayloads : Stringify(p) = b

----------------------------------------------------------------------------
(* C7 as stated: for every body B and non-empty secret S,
   verifyWebhook(B, hmac_sha256(S, B), S) is valid and has a payload. *)
C7_ValidForEveryBody ==
    ( /\ Called
      /\ vin.shape = "exact"
      /\ vin.form = "bare"
      /\ vin.secret # <<>>
      /\ vin.signKey = vin.secret )
    => vout.isValid /\ vout.hasPayload

(* C7 as amended: for every body B that is JSON text and every non-empty
   secret S, verifyWebhook(B, hmac_sha256(S, B), S) is valid and its payload
   is the parsed body. *)
C7_ValidForJsonBodies ==
    ( /\ Called
      /\ vin.shape = "exact"
      /\ vin.form = "bare"
      /\ vin.secret # <<>>
      /\ vin.signKey = vin.secret
      /\ IsJsonBody(vin.body) )
    => /\ vout.isValid
       /\ vout.hasPayload
       /\ Stringify(vout.payload) = vin.body

\* A call with the secret argument Key2, which differs from the configured one.
C7_Witness ==
    /\ Called
    /\ vin.shape = "exact"
    /\ vin.form = "bare"
    /\ vin.secret = Key2
    /\ vin.signKey = Key2
    /\ configSecret = Key1
    /\ IsJsonBody(vin.body)
    /\ vout.isValid

----------------------------------------------------------------------------
(* C8: with a secret available, a signature that is not the expected digest
   (well-formed hex of the digest length that differs, a value with a
   character that is no hex digit, or hex of another decoded length) gives
   isValid = false with the error 'Invalid signature'. *)
NotTheDigest ==
    LET h        == BareOf(vin.signature)
        expected == Hmac(SecretInUse, vin.body)
    IN  \/ AllHex(h) /\ Len(h) = 2 * DigestBytes /\ HexDecode(h) # expected
        \/ ~AllHex(h)
        \/ AllHex(h) /\ Len(h) \div 2 # DigestBytes

C8_InvalidSignatureError ==
    (Called /\ SecretInUse # <<>> /\ NotTheDigest)
    => ~vout.isValid /\ vout.error = "Invalid signature"

----------------------------------------------------------------------------
(* C9 as stated: with sig = hmac_sha256(S, B) for the secret S in use,
   changing one byte of B or one byte of sig makes the call invalid. *)
OneByteChanged ==
    /\ Called
    /\ vin.shape \in {"sigbyte", "bodybyte"}
    /\ SecretInUse # <<>>
    /\ vin.signKey = SecretInUse

C9_AnyByteChangeRejected == OneByteChanged => ~vout.isValid

\* The changed byte of the signature is a letter of the hex digest put in its
\* other case.
CaseOnlyChange ==
    /\ vin.shape = "sigbyte"
    /\ \A i \in 1..Len(vin.sent) :
           vin.signature[i] # vin.sent[i]
               => /\ i > Len(vin.sent) - 2 * DigestBytes
                  /\ vin.signature[i] = SwapCase(vin.sent[i])

(* C9 as amended: changing one byte of B, or one byte of sig other than
   putting a letter of the hex digest in its other case, makes the call
   invalid. *)
C9_ByteChangeRejected == (OneByteChanged /\ ~CaseOnlyChange) => ~vout.isValid

\* A hex digit of the digest was replaced by another hex digit.
C9_Witness ==
    /\ OneByteChanged
    /\ vin.shape = "sigbyte"
    /\ ~CaseOnlyChange
    /\ AllHex(BareOf(vin.signature))
    /\ IsJsonBody(vin.body)
    /\ vout.error = "Invalid signature"

----------------------------------------------------------------------------
(* C10: for a signature h made of hex digits, the call with "sha256=" + h
   gives the result of the call with h; and the sender's signature is
   accepted in both forms. *)
C10_PrefixOptional ==
    /\ (Called /\ vin.form = "bare" /\ AllHex(vin.signature))
           => VerifyWebhook(vin.body, Sha256Prefix \o vin.signature, vin.secret,
                            configSecret) = vout
    /\ ( /\ Called
         /\ vin.shape = "exact"
         /\ SecretInUse # <<>>
         /\ vin.signKey = SecretInUse
         /\ IsJsonBody(vin.body) )
           => vout.isValid

\* The sender's signature with the prefix was accepted.
C10_Witness ==
    /\ Called
    /\ vin.shape = "exact"
    /\ vin.form = "prefixed"
    /\ vin.signKey = SecretInUse
    /\ vout.isValid

----------------------------------------------------------------------------
(* C11: a request has a response exactly when its handling has ended, and the
   status is 400 when the signature header is missing (whether or not the
   verification would have passed), 401 when the header is present and the
   verification fails, 200 when the handling ended without an exception (an
   event of another kind included) and 500 exactly when an exception reached
   the catch block of POST.  The handler exported by the SDK answers a POST
   with the same status as the route in the cases they share. *)
C11_ResponseStatus ==
    \A r \in Requests :
        LET verification == VerifyWebhook(body[r], sig[r], <<>>, configSecret)
        IN  /\ status[r] \in {0, 200, 400, 401, 500}
            /\ status[r] # 0 <=> pc[r] \in {"Done", "Rejected", "Failed"}
            /\ (pc[r] # "Idle" /\ sig[r] = <<>>)
                   => pc[r] = "Rejected" /\ status[r] = 400
            /\ (pc[r] # "Idle" /\ sig[r] # <<>> /\ ~verification.isValid)
                   => pc[r] = "Rejected" /\ status[r] = 401
            /\ pc[r] = "Done" => status[r] = 200
            /\ status[r] = 500 <=> pc[r] = "Failed"
            /\ (pc[r] \in {"Done", "Rejected"} /\ JsonParse(body[r]).ok)
                   => status[r] = CreateWebhookHandler("POST", JsonParse(body[r]).value,
                                                       sig[r], <<>>, configSecret)

\* A request without the header was answered 400 although no secret is set,
\* so that the verification would have failed as well.
C11_Witness ==
    \E r \in Requests :
        /\ pc[r] = "Rejected"
        /\ status[r] = 400
        /\ configSecret = <<>>
        /\ ~VerifyWebhook(body[r], sig[r], <<>>, configSecret).isValid

----------------------------------------------------------------------------
(* C12: when a request ended with 200, the paths it revalidated are exactly
   /jobs/<slug> and /jobs for job.created and job.updated, <slug> being the
   slug of the record it stored, and exactly /jobs for job.deleted; and a
   request has revalidated a path only after its write of the catalog
   completed. *)
InvalidationSet(r) == { revalidated[r][i] : i \in 1..Len(revalidated[r]) }

C12_InvalidationSet ==
    \A r \in Requests :
        /\ (pc[r] = "Done" /\ IsUpsertEvent(payload[r].event))
               => /\ \E i \in IndicesOf(Catalog, JobIdOf(r)) :
                         InvalidationSet(r) = {JobPath(Catalog[i].slug), ListPath}
        /\ (pc[r] = "Done" /\ payload[r].event = "job.deleted")
               => InvalidationSet(r) = {ListPath}
        /\ InvalidationSet(r) # {} => wrote[r]

----------------------------------------------------------------------------
(* C13: when the write of the catalog fails, for an upsert as for a delete,
   the request does not end in Done and is not answered 200. *)
WriteFails(r) ==
    /\ pc[r] = "Writing"
    /\ pc'[r] # "Writing"
    /\ ~wrote'[r]

C13_WriteFailureSurfaced ==
    [][ \A r \in Requests :
          WriteFails(r) => pc'[r] # "Done" /\ status'[r] # 200 ]_vars

----------------------------------------------------------------------------
(* Vocabulary of the properties of downloadJobImages *)

\* ref is the public path of a file named after jobId and index, with one of
\* the extensions downloadImage gives.
IsLocalReferenceOf(ref, publicDir, jobId, index) ==
    \E extension \in AllowedExtensions :
        ref = LocalReference(publicDir, FileName(jobId, index, extension))

\* Entry k of the array is what downloadImage answered for image k, a
\* download counting as successful when `succeeded` says so of its outcome.
EntryAsOutcome(k, succeeded(_)) ==
    IF succeeded(dlOutcomes[k])
    THEN IsLocalReferenceOf(localImagePaths[k], dlDir, dlJob.job_id, k - 1)
    ELSE localImagePaths[k] = dlJob.job_images[k]

FetchSucceeded(outcome) == outcome # "fetch failed"

Materialized(outcome) == outcome = "saved"

\* The call can only go on or have returned: no exception leaves it.
NeverRaised == dlPc = "Returned" \/ ENABLED ImageNext

----------------------------------------------------------------------------
(* C14 as stated: the array returned for n image URLs has n entries, entry i
   being the local reference of (job_id, i) when fetch i succeeded and URL i
   when it failed; no failure ends the call early or leaves it as an
   exception. *)
C14_EntryPerFetch ==
    /\ NeverRaised
    /\ Len(localImagePaths) = dlIndex
    /\ dlPc = "Returned" => Len(localImagePaths) = Len(ImagesOf(dlJob))
    /\ \A k \in 1..Len(localImagePaths) : EntryAsOutcome(k, FetchSucceeded)

(* C14 as amended: entry i is the local reference of (job_id, i) when image i
   was fetched and saved, and URL i when the fetch or the save (mkdir,
   writeFile) failed. *)
C14_EntryPerImage ==
    /\ NeverRaised
    /\ Len(localImagePaths) = dlIndex
    /\ dlPc = "Returned" => Len(localImagePaths) = Len(ImagesOf(dlJob))
    /\ \A k \in 1..Len(localImagePaths) : EntryAsOutcome(k, Materialized)

\* Three images of which the second could not be fetched and the third
\* could not be saved.
C14_Witness ==
    /\ dlPc = "Returned"
    /\ dlOutcomes = <<"saved", "fetch failed", "save failed">>
    /\ dlJob.job_images[2] # dlJob.job_images[1]
    /\ localImagePaths[2] = dlJob.job_images[2]
    /\ localImagePaths[3] = dlJob.job_images[3]

----------------------------------------------------------------------------
(* C15: when a job.created or job.updated event carries images, the record
   stored for it has as many images, and each of them is the local reference
   of (job_id, position), or the URL of the event when downloadJobImages was
   called for the event and could not download that image. *)
DownloadFailed(jobData, k) ==
    /\ dlPc = "Returned"
    /\ dlJob = [job_id |-> jobData.job_id, job_images |-> jobData.job_images]
    /\ dlOutcomes[k] # "saved"

C15_StoredImagesMaterialized ==
    \A r \in Requests :
        (UpsertDone(r) /\ HasImages(payload[r].data)) =>
            \E i \in IndicesOf(Catalog, JobIdOf(r)) :
                LET incoming == payload[r].data.job_images
                    stored   == Catalog[i].job_images
                IN  /\ Len(stored) = Len(incoming)
                    /\ \A k \in 1..Len(stored) :
                           \/ IsLocalReferenceOf(stored[k], DefaultPublicDir, JobIdOf(r), k - 1)
                           \/ stored[k] = incoming[k] /\ DownloadFailed(payload[r].data, k)

----------------------------------------------------------------------------
(* C16: a call of registerWebhook or unregisterWebhook whose request fails
   returns success = false with an error text: "HTTP <status>: <reason>" of
   the response when there is one, and the message of the underlying error
   when no response was received.  (The call returns in every case: the whole
   body of both methods is inside try/catch.) *)
Registered == rout # NoRegistrationResult

RequestFailed == ~rin.settled.resolved

C16_FailuresReturned ==
    (Registered /\ RequestFailed) =>
        LET error == rin.settled.error
        IN  /\ ~rout.success
            /\ error.hasResponse
                   => rout.error = "HTTP " \o ToString(error.status) \o ": " \o error.statusText
            /\ (~error.hasResponse /\ error.isError) => rout.error = error.message

----------------------------------------------------------------------------
(* The four steps of the reference, written over positions. *)

IsLetterOrDigit(ch) == ch \in {"A", "B", "a", "b", "4"}

IsRunChar(ch) == ch \in {" ", "_", "-"}

\* The elements of s at the positions in keep, in order, each mapped by f.
Pick(s, keep, f(_)) ==
    LET nth(k) == CHOOSE i \in keep : Cardinality({ h \in keep : h <= i }) = k
    IN  [k \in 1..Cardinality(keep) |-> f(s[nth(k)])]

Same(ch) == ch

\* 1. lowercase
RefLower(s) == [i \in 1..Len(s) |-> IF s[i] = "A" THEN "a" ELSE IF s[i] = "B" THEN "b" ELSE s[i]]

\* 2. remove what is not in the kept set of characters
RefRemove(s, kept(_)) == Pick(s, { i \in 1..Len(s) : kept(s[i]) }, Same)

\* 3. each run of whitespace, underscore and hyphen becomes one hyphen
RefCollapse(s) ==
    LET hyphenate(ch) == IF IsRunChar(ch) THEN "-" ELSE ch
    IN  Pick(s, { i \in 1..Len(s) : ~IsRunChar(s[i]) \/ i = 1 \/ ~IsRunChar(s[i - 1]) },
             hyphenate)

\* 4. trim leading and trailing hyphens
RefTrim(s) ==
    LET inner == { i \in 1..Len(s) : s[i] # "-" }
    IN  Pick(s, { i \in 1..Len(s) : \E a, b \in inner : a <= i /\ i <= b }, Same)

KeptAsStated(ch) == IsLetterOrDigit(ch) \/ ch = " " \/ ch = "-"

KeptWithUnderscore(ch) == KeptAsStated(ch) \/ ch = "_"

ReferenceSlug(title, kept(_)) == RefTrim(RefCollapse(RefRemove(RefLower(title), kept)))

----------------------------------------------------------------------------
(* C17 as stated: createSlug(title) is the result of: lowercase; remove every
   character that is not alphanumeric, whitespace or hyphen; collapse each
   run of whitespace, underscore and hyphen into one hyphen; trim leading and
   trailing hyphens. *)
C17_SlugIsReference ==
    slugOut.called => slugOut.slug = ReferenceSlug(slugIn, KeptAsStated)

(* C17 as amended: the second step removes every character that is not
   alphanumeric, underscore, whitespace or hyphen. *)
C17_SlugIsReferenceKeepingUnderscore ==
    slugOut.called => slugOut.slug = ReferenceSlug(slugIn, KeptWithUnderscore)

\* A title with an upper-case letter, punctuation and a trailing run of
\* separators that starts with an underscore.
C17_Witness ==
    /\ slugOut.called
    /\ slugIn = <<"A", "!", "_", " ">>
    /\ slugOut.slug = <<"a">>

----------------------------------------------------------------------------
(* C18: handling one request at a time, the step that completes the write of
   an upsert changes the catalog at one position only: when a record with
   the job_id of the event exists, the catalog keeps its length, the new
   record is at the index of the old one and every other index holds what it
   held; otherwise the catalog is the previous one with the new record
   appended. *)
UpsertWrites(r) ==
    /\ pc[r] = "Writing"
    /\ IsUpsertEvent(payload[r].event)
    /\ wrote'[r]

C18_UpsertFrame ==
    [][ \A r \in Requests :
          UpsertWrites(r) =>
              LET before == Catalog
                  after  == Catalog'
                  record == JobWithSlug(payload[r].data)
                  found  == IndicesOf(before, JobIdOf(r))
              IN  IF found # {}
                  THEN /\ Len(after) = Len(before)
                       /\ \A i \in 1..Len(before) :
                              after[i] = IF i \in found THEN record ELSE before[i]
                  ELSE after = before \o <<record>> ]_vars

\* An update replaced the first of two records.
C18_Witness ==
    \E r \in Requests :
        /\ UpsertDone(r)
        /\ Len(readJobs[r]) = 2
        /\ Len(fileJobs) = 2
        /\ readJobs[r][1].job_id = JobIdOf(r)
        /\ fileJobs[1] # readJobs[r][1]
        /\ fileJobs[2] = readJobs[r][2]

----------------------------------------------------------------------------
(* C19: a request that is authentic and whose body is JSON with an event
   other than job.created, job.updated and job.deleted is not rejected, can
   only go on to Done, reads and writes no catalog and revalidates no path;
   in Done its status is 200. *)
OtherKind(r) ==
    /\ pc[r] # "Idle"
    /\ Authentic(r)
    /\ \E p \in RequestPayloads :
           /\ Stringify(p) = body[r]
           /\ p.event \notin {"job.created", "job.updated", "job.deleted"}

C19_UnknownKindNoOp ==
    \A r \in Requests :
        OtherKind(r) =>
            /\ pc[r] \in {"Dispatching", "Done"}
            /\ pc[r] = "Dispatching" => ENABLED SkipEvent(r)
            /\ pc[r] = "Done" => status[r] = 200
            /\ ~wrote[r]
            /\ readJobs[r] = <<>>
            /\ revalidated[r] = <<>>

\* A job.archived event was answered 200 while the catalog holds a record
\* with its job_id.
C19_Witness ==
    \E r \in Requests :
        /\ OtherKind(r)
        /\ pc[r] = "Done"
        /\ status[r] = 200
        /\ IndicesOf(Catalog, JobIdOf(r)) # {}

----------------------------------------------------------------------------
(* What downloadImage would return for the slot of image k of the call if
   the image had the URL imageUrl and the response the header contentType. *)
ReferenceWith(k, imageUrl, contentType) ==
    LocalReference(dlDir, FileName(dlJob.job_id, k - 1, Extension(imageUrl, contentType)))

\* The saved images of the call.
SavedImages == { k \in 1..Len(dlOutcomes) : dlOutcomes[k] = "saved" }

\* The reference of slot (jobId, index) below publicDir, up to the extension.
SlotStem(publicDir, jobId, index) ==
    <<"/">> \o (IF publicDir = DefaultPublicDir THEN <<"j", "o", "b", "s">> ELSE publicDir)
    \o <<"/", "j", "o", "b", "-">> \o jobId
    \o <<"-", CHOOSE d \in {"0", "1", "2", "3", "4"} : DecimalOf(index) = d, ".">>

\* The name, up to the extension, of the file of slot (jobId, index).
SlotFile(publicDir, jobId, index) ==
    publicDir \o <<"/", "j", "o", "b", "-">> \o jobId
    \o <<"-", CHOOSE d \in {"0", "1", "2", "3", "4"} : DecimalOf(index) = d, ".">>

(* C20 as stated: the reference returned for a saved image is the one any
   other image URL and any other content type would give for the same jobId
   and index. *)
C20_ReferenceBySlotAlone ==
    \A k \in SavedImages :
        \A imageUrl \in ImageUrls, contentType \in ContentTypes :
            ReferenceWith(k, imageUrl, contentType) = localImagePaths[k]

(* C20 as amended: the reference returned for a saved image, and the name of
   the file written for it, are given by publicDir, jobId and index up to the
   extension, which is one of the known ones; any other image URL and
   content type give the same reference up to the extension. *)
C20_ReferenceBySlotAndExtension ==
    \A k \in SavedImages :
        LET stem == SlotStem(dlDir, dlJob.job_id, k - 1)
        IN  /\ \E extension \in AllowedExtensions :
                   /\ localImagePaths[k] = stem \o extension
                   /\ SlotFile(dlDir, dlJob.job_id, k - 1) \o extension \in dlFiles
            /\ \A imageUrl \in ImageUrls, contentType \in ContentTypes :
                   \E extension \in AllowedExtensions :
                       ReferenceWith(k, imageUrl, contentType) = stem \o extension

\* Two images of one call were saved under different extensions, the second
\* taken from an upper-case extension of the URL.
C20_Witness ==
    /\ dlPc = "Returned"
    /\ dlOutcomes = <<"saved", "saved">>
    /\ dlDir = DefaultPublicDir
    /\ localImagePaths[1] = SlotStem(dlDir, dlJob.job_id, 0) \o <<"p", "n", "g">>
    /\ localImagePaths[2] = SlotStem(dlDir, dlJob.job_id, 1) \o <<"j", "p", "g">>
    /\ UrlExtension(dlJob.job_images[2]) = <<"J", "P", "G">>

----------------------------------------------------------------------------
(* C21: the calls of downloadImage of one downloadJobImages call do not
   overlap and follow the input: the log is get, returned, get, returned, ...,
   so that the get of an image comes after the return for the image before
   it, and the get and the return of the image at input position i carry
   index i and the URL at that position. *)
C21_OneImageAtATime ==
    /\ \A n \in 1..Len(dlLog) :
           LET position == (n - 1) \div 2
           IN  /\ dlLog[n].op = (IF n % 2 = 1 THEN "get" ELSE "returned")
               /\ dlLog[n].index = position
               /\ dlLog[n].url = dlJob.job_images[position + 1]
    /\ dlPc \in {"Fetching", "Saving"} <=> Len(dlLog) % 2 = 1
    /\ dlPc = "Returned" => Len(dlLog) = 2 * Len(ImagesOf(dlJob))

\* The third image is being fetched after the first was saved and the
\* second, another URL, could not be fetched.
C21_Witness ==
    /\ dlPc = "Fetching"
    /\ dlIndex = 2
    /\ dlOutcomes = <<"saved", "fetch failed">>
    /\ dlJob.job_images[1] # dlJob.job_images[2]
    /\ Len(dlLog) = 5

----------------------------------------------------------------------------
(* C22: while data/jobs.json is absent or unreadable, getAllJobs returns []
   and getJobBySlug returns no record, neither throwing; an upsert for an
   event with a title reads [] and goes on to write; and when its write
   completes, the request is answered 200 and the file holds exactly the
   record of the event. *)
StoreMissing == fileState \in {"absent", "corrupt"}

ReadsOfMissingStore ==
    (StoreMissing /\ libOut = NoLibResult /\ libOut' # NoLibResult) =>
        /\ ~libOut'.threw
        /\ libOut'.jobs = <<>>
        /\ ~libOut'.found

UpsertOntoMissingStore(r) ==
    (StoreMissing /\ IsUpsertEvent(payload[r].event)
        /\ "job_title" \in DOMAIN payload[r].data) =>
        /\ (pc[r] = "Dispatching" /\ pc'[r] # "Dispatching")
               => pc'[r] = "Writing" /\ readJobs'[r] = <<>>
        /\ (pc[r] = "Writing" /\ wrote'[r])
               => /\ pc'[r] = "Done"
                  /\ status'[r] = 200
                  /\ fileState' = "ok"
                  /\ fileJobs' = <<JobWithSlug(payload[r].data)>>

============================================================================
